---------------------------- MODULE Spec2Model ----------------------------
(***************************************************************************)
(* Model of src/main.py: the lava lamp's blob initialisation loop, the     *)
(* Blob methods update/area/split, draw_chrome and the main loop.          *)
(*                                                                         *)
(* Floats are fixed point.  Lengths and velocities are in 1/LU of a canvas *)
(* unit, temperatures in 1/TU, areas in 1/AU of a square canvas unit.      *)
(* Every constant of update() is a whole number of these units, so         *)
(* update() is exact; area() and math.sqrt round as written below.         *)
(* The random module is a linear congruential generator whose seed is      *)
(* chosen in Init.                                                         *)
(***************************************************************************)
EXTENDS Integers, Sequences, FiniteSets

VARIABLES blobs, remaining_area, new_blobs, chrome, rng, pc, i, step, event

vars == <<blobs, remaining_area, new_blobs, chrome, rng, pc, i, step, event>>

---------------------------------------------------------------------------
(* Bounds of the model. *)
NumSeeds == 24
MaxSteps == 110
MaxSplitSteps == 3

(* Fixed-point scales. *)
LU == 1000
TU == 100
AU == 100

(* The generator behind random.uniform. *)
RandMod == 1024
RandMul == 5
RandInc == 3

---------------------------------------------------------------------------
(* Program constants. *)
SCREEN_WIDTH == 480
SCREEN_HEIGHT == 480
CANVAS_WIDTH == 20
CANVAS_HEIGHT == 70
SCALE == 6
MAX_RADIUS == 15
MIN_RADIUS == 5
GRAVITY == 20
BUOYANCY == 50
COOLING_RATE == 1
HEATING_RATE == 2

COLUMN_X == (SCREEN_WIDTH - CANVAS_WIDTH * SCALE) \div 2
COLUMN_Y == (SCREEN_HEIGHT - CANVAS_HEIGHT * SCALE) \div 2
CHROME_HEIGHT == 10 * SCALE
chrome_colors == <<50, 75, 100, 125, 150, 175, 200, 175, 150, 125, 100, 75, 50>>

COLUMN_AREA == CANVAS_WIDTH * CANVAS_HEIGHT * SCALE * SCALE
TOTAL_AREA == (COLUMN_AREA * AU * 5) \div 100
HEAT_ZONE == (CANVAS_HEIGHT * LU * 15) \div 100

---------------------------------------------------------------------------
(* Arithmetic. *)

\* floor(a * b / c) without leaving 32 bits
MulDiv(a, b, c) == (a \div c) * b + ((a % c) * b) \div c

\* a * b / c rounded to nearest
MulDivRound(a, b, c) == (a \div c) * b + ((a % c) * b + c \div 2) \div c

RECURSIVE SqrtIter(_, _, _)
SqrtIter(n, lo, hi) ==
    IF lo >= hi THEN lo
    ELSE LET mid == (lo + hi + 1) \div 2
         IN  IF mid * mid <= n THEN SqrtIter(n, mid, hi)
                               ELSE SqrtIter(n, lo, mid - 1)

\* math.sqrt on a number of square length units
sqrt(n) == SqrtIter(n, 0, 46340)

\* math.pi * r**2, for r in length units, in area units (pi = 355/113)
AreaOf(r) == MulDivRound(r * r, 355, 113 * ((LU * LU) \div AU))

\* math.sqrt(a / math.pi), for a in area units, in length units
RadiusOf(a) == sqrt(MulDiv(a * ((LU * LU) \div AU), 113, 355))

Max(a, b) == IF a >= b THEN a ELSE b
Min(a, b) == IF a <= b THEN a ELSE b

---------------------------------------------------------------------------
(* random *)

Adv(s) == (RandMul * s + RandInc) % RandMod

\* random.uniform(lo, hi) read from generator state s
uniform(s, lo, hi) == lo + ((hi - lo) * s) \div RandMod

---------------------------------------------------------------------------
(* class Blob.  born, nupd and nsplit are history fields: the step in     *)
(* which the blob was appended and the calls of update() and split() on   *)
(* it so far.                                                             *)

\* Blob.__init__ with the generator in state s before its two draws
Blob(x, y, r, s, b) ==
    [x |-> x, y |-> y, r |-> r,
     dx |-> uniform(Adv(s), -(LU \div 2), LU \div 2),
     dy |-> uniform(Adv(Adv(s)), -(LU \div 10), LU \div 10),
     temperature |-> 0,
     born |-> b, nupd |-> 0, nsplit |-> 0]

ClampNone(t) == t

\* max(0.0, min(1.0, temperature))
Clamp(t) == Max(0, Min(TU, t))

\* update(): gravity, heat zone, clamp, buoyancy
Heat(b) ==
    LET hot == b.y > CANVAS_HEIGHT * LU - HEAT_ZONE
        t   == Clamp(IF hot THEN b.temperature + HEATING_RATE
                            ELSE b.temperature - COOLING_RATE)
        dy1 == b.dy + GRAVITY - (IF hot THEN LU \div 20 ELSE 0)
    IN  [b EXCEPT !.temperature = t,
                  !.dy = dy1 - (BUOYANCY * t * 2) \div TU]

\* update(): move the blob
Move(b) == [b EXCEPT !.x = b.x + b.dx, !.y = b.y + b.dy]

\* update(): bounce off horizontal edges
Bounce(b) ==
    IF b.x - b.r < 0 \/ b.x + b.r > CANVAS_WIDTH * LU
    THEN [b EXCEPT !.dx = -b.dx]
    ELSE b

\* which of the two resets of update() applies
Edge(b) ==
    IF b.y - b.r > CANVAS_HEIGHT * LU THEN "bottom"
    ELSE IF b.y + b.r < 0 THEN "top"
    ELSE "none"

ResetTopOnly(b) ==
    IF b.y + b.r < 0 THEN [b EXCEPT !.y = b.r, !.dy = 0] ELSE b

ResetKeepDy(b) ==
    IF b.y - b.r > CANVAS_HEIGHT * LU
    THEN [b EXCEPT !.y = CANVAS_HEIGHT * LU - b.r]
    ELSE IF b.y + b.r < 0
    THEN [b EXCEPT !.y = b.r]
    ELSE b

\* update(): reset blobs that move off the bottom or top
Reset(b) ==
    IF b.y - b.r > CANVAS_HEIGHT * LU
    THEN [b EXCEPT !.y = CANVAS_HEIGHT * LU - b.r, !.dy = 0]
    ELSE IF b.y + b.r < 0
    THEN [b EXCEPT !.y = b.r, !.dy = 0]
    ELSE b

\* the blob as update() leaves the tick's movement, before the edge checks
Moved(b) == Move(Heat(b))

update(b) == [Reset(Bounce(Moved(b))) EXCEPT !.nupd = b.nupd + 1]

SplitThresholdMin == (MIN_RADIUS * LU * 8) \div 10

\* MAX_RADIUS * 0.8
SplitThreshold == (MAX_RADIUS * LU * 8) \div 10

ChildRadiusThird(r) == RadiusOf(AreaOf(r) \div 3)

\* split(): child_radius
ChildRadius(r) == RadiusOf(AreaOf(r) \div 2)

\* split(): the blob afterwards
SplitParent(b) ==
    [b EXCEPT !.r = IF b.r > SplitThreshold THEN ChildRadius(b.r) ELSE b.r,
              !.nsplit = b.nsplit + 1]

\* split(): the children returned (none or one), generator in state s
SplitChildren(b, s, bornAt) ==
    IF b.r > SplitThreshold
    THEN LET cr == ChildRadius(b.r)
         IN  <<Blob(b.x + uniform(Adv(s), -cr, cr),
                    b.y + uniform(Adv(Adv(s)), -cr, cr),
                    cr, Adv(Adv(s)), bornAt)>>
    ELSE <<>>

---------------------------------------------------------------------------
(* Initialisation loop. *)

\* the radius of the next blob: the drawn one, shrunk to the remaining area
InitRadius(drawn, remaining) ==
    IF AreaOf(drawn) > remaining THEN RadiusOf(remaining) ELSE drawn

Init ==
    /\ blobs = <<>>
    /\ remaining_area = TOTAL_AREA
    /\ new_blobs = <<>>
    /\ chrome = [top |-> <<>>, bottom |-> <<>>]
    /\ rng \in 0 .. NumSeeds - 1
    /\ pc = "init"
    /\ i = 0
    /\ step = 0
    /\ event = "none"

\* one iteration of `while remaining_area > 0`
InitBlob ==
    /\ pc = "init"
    /\ remaining_area > 0
    /\ LET s1 == Adv(rng)
           radius == InitRadius(uniform(s1, MIN_RADIUS * LU, (MIN_RADIUS + 2) * LU),
                                remaining_area)
           blob_area == AreaOf(radius)
           s2 == Adv(s1)
           s3 == Adv(s2)
       IN  /\ blobs' = Append(blobs,
                  Blob(uniform(s2, radius, CANVAS_WIDTH * LU - radius),
                       uniform(s3, radius, CANVAS_HEIGHT * LU - radius),
                       radius, s3, 0))
           /\ remaining_area' = remaining_area - blob_area
           /\ rng' = Adv(Adv(s3))
    /\ UNCHANGED <<new_blobs, chrome, pc, i, step, event>>

\* the loop ends; the main loop is entered
StartLoop ==
    /\ pc = "init"
    /\ remaining_area <= 0
    /\ pc' = "draw"
    /\ UNCHANGED <<blobs, remaining_area, new_blobs, chrome, rng, i, step, event>>

---------------------------------------------------------------------------
(* draw_chrome and the main loop. *)

chrome_slice_width == (CANVAS_WIDTH * SCALE) \div Len(chrome_colors)
chrome_x == (SCREEN_WIDTH - CANVAS_WIDTH * SCALE) \div 2

\* the rectangles of one band whose top edge is at y
Band(y) ==
    [k \in 1 .. Len(chrome_colors) |->
        [x |-> chrome_x + (k - 1) * chrome_slice_width, y |-> y,
         w |-> chrome_slice_width, h |-> CHROME_HEIGHT, pen |-> chrome_colors[k]]]

draw_chrome ==
    [top |-> Band(COLUMN_Y - CHROME_HEIGHT),
     bottom |-> Band(COLUMN_Y + CANVAS_HEIGHT * SCALE)]

\* clear, draw_chrome(), render; then the update loop starts
Frame(bound) ==
    /\ pc = "draw"
    /\ step < bound
    /\ chrome' = draw_chrome
    /\ pc' = "update"
    /\ i' = 1
    /\ UNCHANGED <<blobs, remaining_area, new_blobs, rng, step, event>>

\* one iteration of `for blob in blobs: blob.update()`
UpdateBlob ==
    /\ pc = "update"
    /\ i <= Len(blobs)
    /\ blobs' = [blobs EXCEPT ![i] = update(blobs[i])]
    /\ event' = Edge(Bounce(Moved(blobs[i])))
    /\ i' = i + 1
    /\ UNCHANGED <<remaining_area, new_blobs, chrome, rng, pc, step>>

\* the update loop ends; new_blobs = []
UpdateDone ==
    /\ pc = "update"
    /\ i > Len(blobs)
    /\ new_blobs' = <<>>
    /\ pc' = "split"
    /\ i' = 1
    /\ UNCHANGED <<blobs, remaining_area, chrome, rng, step, event>>

SplitBlobInPlace ==
    /\ pc = "split"
    /\ i <= Len(blobs)
    /\ blobs' = [blobs EXCEPT ![i] = SplitParent(blobs[i])]
                    \o SplitChildren(blobs[i], rng, step + 1)
    /\ rng' = IF SplitChildren(blobs[i], rng, step + 1) = <<>>
              THEN rng ELSE Adv(Adv(Adv(Adv(rng))))
    /\ i' = i + 1
    /\ UNCHANGED <<remaining_area, new_blobs, chrome, pc, step, event>>

\* one iteration of `for blob in blobs: child = blob.split() ...`
SplitBlob ==
    /\ pc = "split"
    /\ i <= Len(blobs)
    /\ blobs' = [blobs EXCEPT ![i] = SplitParent(blobs[i])]
    /\ new_blobs' = new_blobs \o SplitChildren(blobs[i], rng, step + 1)
    /\ rng' = IF SplitChildren(blobs[i], rng, step + 1) = <<>>
              THEN rng ELSE Adv(Adv(Adv(Adv(rng))))
    /\ i' = i + 1
    /\ UNCHANGED <<remaining_area, chrome, pc, step, event>>

ExtendReplace(bs, ns) == ns

\* blobs.extend(new_blobs)
Extend(bs, ns) == bs \o ns

\* the split loop ends: extend, presto.update(), sleep
EndFrame ==
    /\ pc = "split"
    /\ i > Len(blobs)
    /\ blobs' = Extend(blobs, new_blobs)
    /\ new_blobs' = <<>>
    /\ step' = step + 1
    /\ pc' = "draw"
    /\ UNCHANGED <<remaining_area, chrome, rng, i, event>>

Next ==
    \/ InitBlob
    \/ StartLoop
    \/ Frame(MaxSteps)
    \/ UpdateBlob
    \/ UpdateDone
    \/ SplitBlob
    \/ EndFrame

Spec == Init /\ [][Next]_vars


---------------------------------------------------------------------------
(* The main loop on its own, entered with one or two blobs of any radius   *)
(* the data model allows: the steps in which split() does return a child.  *)

SplitRadii ==
    {MIN_RADIUS * LU, SplitThreshold, SplitThreshold + 1,
     (MAX_RADIUS * LU * 9) \div 10, MAX_RADIUS * LU}

\* a blob as Blob(x, y, r) constructs it, centred horizontally
FieldBlobs ==
    UNION {{Blob((CANVAS_WIDTH * LU) \div 2, y, r, s, 0) :
               y \in {(CANVAS_HEIGHT * LU) \div 2, CANVAS_HEIGHT * LU - r},
               s \in {0, RandMod \div 2}} :
           r \in SplitRadii}

InitField ==
    /\ blobs \in {<<a>> : a \in FieldBlobs}
                \cup {<<a, b>> : a \in FieldBlobs, b \in FieldBlobs}
    /\ remaining_area = 0
    /\ new_blobs = <<>>
    /\ chrome = [top |-> <<>>, bottom |-> <<>>]
    /\ rng \in 0 .. NumSeeds - 1
    /\ pc = "draw"
    /\ i = 0
    /\ step = 0
    /\ event = "none"

NextField ==
    \/ Frame(MaxSplitSteps)
    \/ UpdateBlob
    \/ UpdateDone
    \/ SplitBlob
    \/ EndFrame

SpecField == InitField /\ [][NextField]_vars


---------------------------------------------------------------------------
(* Properties. *)

CanvasW == CANVAS_WIDTH * LU
CanvasH == CANVAS_HEIGHT * LU

RECURSIVE SumArea(_)
SumArea(bs) == IF bs = <<>> THEN 0 ELSE AreaOf(Head(bs).r) + SumArea(Tail(bs))

InitFinished == pc = "draw" /\ step = 0

\* an update() call is the next step, on blobs[i]
AtUpdate == pc = "update" /\ i <= Len(blobs)

\* a split() call is the next step, on blobs[i]
AtSplit == pc = "split" /\ i <= Len(blobs)

\* C1: the number of blobs never decreases from one state to the next, and
\* every blob's radius r, in the collection or about to be appended to it,
\* satisfies 0 < r <= MAX_RADIUS.
C1_CountAndRadius ==
    /\ [][Len(blobs') >= Len(blobs)]_vars
    /\ [](\A k \in 1 .. Len(blobs) :
             blobs[k].r > 0 /\ blobs[k].r <= MAX_RADIUS * LU)
    /\ [](\A k \in 1 .. Len(new_blobs) :
             new_blobs[k].r > 0 /\ new_blobs[k].r <= MAX_RADIUS * LU)

\* the collection has grown to several blobs and whole steps have run
C1_Witness == pc = "draw" /\ step >= 2 /\ Len(blobs) >= 2

\* C2 (as amended): after update() a blob is never entirely off the top or
\* the bottom (y + r >= 0 and y - r <= CANVAS_HEIGHT) and its horizontal
\* extent passes an edge by at most half a unit, one tick of drift; the
\* centre itself may be outside the canvas.
C2_ExtentWithin ==
    \A k \in 1 .. Len(blobs) :
        blobs[k].nupd >= 1 =>
            /\ blobs[k].y + blobs[k].r >= 0
            /\ blobs[k].y - blobs[k].r <= CanvasH
            /\ blobs[k].x - blobs[k].r >= -(LU \div 2)
            /\ blobs[k].x + blobs[k].r <= CanvasW + LU \div 2

\* C2 (as claimed): after update() every blob's centre is within the canvas,
\* 0 <= x <= CANVAS_WIDTH and 0 <= y <= CANVAS_HEIGHT.
C2_CentreWithin ==
    \A k \in 1 .. Len(blobs) :
        blobs[k].nupd >= 1 =>
            /\ 0 <= blobs[k].x /\ blobs[k].x <= CanvasW
            /\ 0 <= blobs[k].y /\ blobs[k].y <= CanvasH

\* a full-size blob that update() has left with its centre below the canvas
C2_Witness ==
    \E k \in 1 .. Len(blobs) :
        /\ blobs[k].nupd >= 1
        /\ blobs[k].r >= MIN_RADIUS * LU
        /\ blobs[k].y > CanvasH

\* C3: update() leaves the radius unchanged and the temperature within
\* [0, 1]; every blob's temperature is within [0, 1] in every state.
C3_UpdateKeepsRadius ==
    /\ [][AtUpdate => /\ blobs'[i].r = blobs[i].r
                      /\ blobs'[i].temperature >= 0
                      /\ blobs'[i].temperature <= TU]_vars
    /\ [](\A k \in 1 .. Len(blobs) :
             blobs[k].temperature >= 0 /\ blobs[k].temperature <= TU)

\* a blob that update() has heated
C3_Witness ==
    \E k \in 1 .. Len(blobs) : blobs[k].nupd >= 1 /\ blobs[k].temperature > 0

\* C4: split() on a blob with r > 0.8 * MAX_RADIUS returns exactly one child;
\* the parent's area afterwards is half its area before, to the resolution
\* of the radius (half lies between the areas of the new radius and of the
\* next representable one), and the child's area equals the parent's.
C4_SplitHalves ==
    [][(AtSplit /\ blobs[i].r > SplitThreshold) =>
        /\ Len(new_blobs') = Len(new_blobs) + 1
        /\ LET half == AreaOf(blobs[i].r) \div 2
               child == new_blobs'[Len(new_blobs')]
           IN  /\ AreaOf(blobs'[i].r) <= half
               /\ half <= AreaOf(blobs'[i].r + 1)
               /\ AreaOf(child.r) = AreaOf(blobs'[i].r)]_vars

\* split() has just returned a child
C4_Witness == pc = "split" /\ new_blobs # <<>>

\* 5% of the canvas area CANVAS_WIDTH x CANVAS_HEIGHT
CanvasBudget == (CANVAS_WIDTH * CANVAS_HEIGHT * AU * 5) \div 100

\* the largest blob initialisation draws
MaxInitArea == AreaOf((MIN_RADIUS + 2) * LU)

\* What the initialisation loop does establish (beside C5): it terminates
\* (each iteration lowers the positive remaining area) and the blobs' total
\* area is <= 5% of COLUMN_AREA = CANVAS_WIDTH * CANVAS_HEIGHT * SCALE**2 and
\* greater than that minus the area of a blob of radius MIN_RADIUS + 2.
ColumnBudget ==
    /\ [](InitFinished =>
             /\ SumArea(blobs) <= TOTAL_AREA
             /\ SumArea(blobs) > TOTAL_AREA - MaxInitArea)
    /\ [][pc = "init" /\ pc' = "init" =>
             remaining_area > 0 /\ remaining_area' < remaining_area]_vars

\* C5: the blobs' total area after initialisation is <= 5% of the canvas
\* area CANVAS_WIDTH x CANVAS_HEIGHT and greater than that minus the area of
\* a blob of radius MIN_RADIUS + 2.
C5_CanvasBudget ==
    InitFinished =>
        /\ SumArea(blobs) <= CanvasBudget
        /\ SumArea(blobs) > CanvasBudget - MaxInitArea

\* C6 (as amended): update() on a blob that the tick's movement puts
\* entirely below the canvas (y - r > CANVAS_HEIGHT) leaves it flush with
\* the bottom from inside, y + r = CANVAS_HEIGHT, with dy = 0.
C6_BottomFlushInside ==
    [][(AtUpdate /\ Moved(blobs[i]).y - blobs[i].r > CanvasH) =>
        /\ blobs'[i].y + blobs'[i].r = CanvasH
        /\ blobs'[i].dy = 0]_vars

\* C6 (as claimed): update() on such a blob leaves y - r = CANVAS_HEIGHT and
\* dy = 0.
C6_BottomFlushOutside ==
    [][(AtUpdate /\ Moved(blobs[i]).y - blobs[i].r > CanvasH) =>
        /\ blobs'[i].y - blobs'[i].r = CanvasH
        /\ blobs'[i].dy = 0]_vars

\* the last update() took the bottom reset
C6_Witness == event = "bottom" /\ pc = "update" /\ i > 1

\* C7: every blob's radius is within [MIN_RADIUS, MAX_RADIUS].
C7_RadiusInRange ==
    \A k \in 1 .. Len(blobs) :
        MIN_RADIUS * LU <= blobs[k].r /\ blobs[k].r <= MAX_RADIUS * LU

\* the slices of a band lie side by side from the column's left edge and end
\* at its right edge
Spans(band) ==
    /\ Len(band) = Len(chrome_colors)
    /\ band[1].x = COLUMN_X
    /\ \A k \in 1 .. Len(band) - 1 :
          band[k].w = band[k + 1].w /\ band[k].x + band[k].w = band[k + 1].x
    /\ band[Len(band)].x + band[Len(band)].w = COLUMN_X + CANVAS_WIDTH * SCALE

\* C8: each band draw_chrome() draws is len(chrome_colors) equal-width slices
\* that cover the column from its left edge to its right edge exactly.
C8_ChromeSpansColumn ==
    pc # "init" /\ pc # "draw" => Spans(chrome.top) /\ Spans(chrome.bottom)

\* the calls a blob of the collection has had when `done` of the current
\* step's calls are counted
CallsDue(b, done) == step - b.born + (IF done THEN 1 ELSE 0)

\* C9: within a step every blob of the collection is updated exactly once
\* and then offered split exactly once; the children wait in new_blobs,
\* untouched, until every blob has been processed, and first take part in
\* the next step; no blob is removed.
C9_StepOrder ==
    /\ [](\A k \in 1 .. Len(blobs) :
             /\ blobs[k].born <= step
             /\ blobs[k].nupd =
                   CallsDue(blobs[k], pc = "split" \/ (pc = "update" /\ k < i))
             /\ blobs[k].nsplit = CallsDue(blobs[k], pc = "split" /\ k < i))
    /\ [](\A k \in 1 .. Len(new_blobs) :
             /\ new_blobs[k].born = step + 1
             /\ new_blobs[k].nupd = 0
             /\ new_blobs[k].nsplit = 0)
    /\ [][/\ Len(blobs') >= Len(blobs)
          /\ \A k \in 1 .. Len(blobs) : blobs'[k].born = blobs[k].born]_vars

\* a child has been updated and offered split in a step after its own
C9_Witness ==
    \E k \in 1 .. Len(blobs) :
        blobs[k].born >= 1 /\ blobs[k].nupd >= 1 /\ blobs[k].nsplit >= 1

\* C10: every blob has radius <= MIN_RADIUS + 2, below the split threshold,
\* so split() never returns a child and, once initialisation has finished,
\* the number of blobs never changes.
C10_NeverSplits ==
    /\ [](\A k \in 1 .. Len(blobs) :
             /\ blobs[k].r <= (MIN_RADIUS + 2) * LU
             /\ blobs[k].r <= SplitThreshold)
    /\ [](new_blobs = <<>>)
    /\ [][pc # "init" => Len(blobs') = Len(blobs)]_vars

\* every blob has been offered split in several steps
C10_Witness ==
    /\ pc = "draw" /\ step >= 2 /\ Len(blobs) >= 2
    /\ \A k \in 1 .. Len(blobs) : blobs[k].nsplit >= 2

=============================================================================
